---- MODULE Spec2Model ----
(***************************************************************************)
(* A model of bot/Timer/Timer.py: the Timer state machine with its         *)
(* runloop, the TimerChannel status message and the TimerSubscriber        *)
(* record.                                                                 *)
(*                                                                         *)
(* Coroutines are modelled as tasks.  A step of a task runs the code from  *)
(* one suspension point (an await that really suspends: channel.send,      *)
(* add_reaction, clock_channel.edit, asyncio.sleep) to the next, which is  *)
(* how the asyncio event loop interleaves them.                            *)
(*                                                                         *)
(* The wall clock is counted in ticks of 1/TicksPerSecond seconds, so that *)
(* int(time.time()) and the float time.time() of runloop differ.           *)
(***************************************************************************)
EXTENDS Integers, Sequences, FiniteSets, TLC

\* ------------------------------------------------------------------ bounds
MaxAdvances == 3
MaxCalls == 3
MaxTasks == 2
TicksPerSecond == 2
Epoch == 1000

\* ------------------------------------------------------- program constants
clock_period == 5
SecondsPerMinute == 60
None == -1000000

VARIABLES
    clock,                \* time.time(), in ticks
    state,                \* Timer.state
    stages,               \* Timer.stages (<<>>: None or empty)
    current_stage,        \* Timer.current_stage, 0-based
    start_time,           \* Timer.start_time
    current_stage_start,  \* Timer.current_stage_start
    remaining,            \* Timer.remaining
    subscribed,           \* Timer.subscribed: userid -> TimerSubscriber
    last_clockupdate,     \* Timer.last_clockupdate
    clock_channel,        \* Timer.clock_channel: "None" or "channel"
    tasks,                \* the coroutines in flight: start(), change_stage(), runloop()
    calls,                \* the number of calls external callers have made
    last_return,          \* the coroutine that ended last: its kind, argument, exception
    last_edit             \* clock tick of the last clock_channel.edit issued

VARIABLES
    timers,               \* TimerChannel.timers: the member timers, in insertion order
    msg,                  \* TimerChannel.msg: 0 for None, else the message's number
    surface,              \* the status messages of the channel: their embeds' descriptions
    notices,              \* the plain notices sent to the channel
    updates,              \* the TimerChannel.update() coroutines in flight
    update_calls,         \* the number of update() calls made
    update_return         \* how the update() that ended last ended

VARIABLES
    sub,                  \* a TimerSubscriber
    restored              \* the result of deserialise(serialise(sub))

VARIABLES
    rendered              \* what pretty_remaining() returned last ("" before a call)

channelVars == <<timers, msg, surface, notices, updates, update_calls, update_return>>
subscriberVars == <<sub, restored>>

timerVars == <<state, stages, current_stage, start_time, current_stage_start,
               remaining, subscribed, last_clockupdate, clock_channel>>
vars == <<clock, timerVars, tasks, calls, last_return, last_edit>>
allVars == <<vars, channelVars, subscriberVars, rendered>>

\* -------------------------------------------------------------- data types
TimerStage(name, duration, message) ==
    [name |-> name, duration |-> duration, message |-> message]

Work == TimerStage("Work", 1, "")
Break == TimerStage("Break", 1, "rest")
Long == TimerStage("Long", 2, "")

StageLists == {<<Work, Break>>, <<Work, Break, Long>>}

StageArgs == {-1, 3}

UserIds == {7}

TaskIds == 1..MaxTasks

\* int(time.time())
Now == clock \div TicksPerSecond

\* Python's int() of the quotient num/den: truncation toward zero
IntOf(num, den) ==
    IF num >= 0 THEN num \div den ELSE -((-num) \div den)

\* clamping to the list instead of wrapping around it
PyModClamped(a, n) == IF a < 0 THEN 0 ELSE IF a >= n THEN n - 1 ELSE a

\* Python's a % n for n > 0: the result has the sign of n
PyMod(a, n) == a % n

\* TimerSubscriber.__slots__
Slots ==
    {"member", "timer", "interface", "client", "id", "time_joined",
     "last_updated", "clocked_time", "active", "last_seen", "warnings"}

\* TimerSubscriber.__init__: the slots it assigns
NewSubscriber(id, now) ==
    [member |-> "member", timer |-> "timer", interface |-> "interface",
     client |-> "client", id |-> id,
     time_joined |-> now, last_updated |-> now, clocked_time |-> 0,
     active |-> TRUE, last_seen |-> now, warnings |-> 0]

\* a coroutine slot: out_msg is the notification change_stage composed, sent the
\* number of notifications the channel took from it
IdleTask ==
    [kind |-> "idle", pc |-> "idle", arg |-> 0, n |-> 0, stage_index |-> 0, wake |-> 0,
     out_msg |-> "", sent |-> 0]

Free(t) == tasks[t].pc = "idle"

\* the slot a new coroutine gets
FreeSlot == CHOOSE t \in TaskIds : Free(t) /\ \A u \in TaskIds : Free(u) => t <= u

Live(t) == tasks[t].kind = "runloop"

Returned(kind, i, exc) == [kind |-> kind, arg |-> i, exc |-> exc]

\* ------------------------------------------------------------------- Init
TimerInit ==
    /\ clock = Epoch * TicksPerSecond
    /\ \E s \in StageLists \cup {<<>>} :
          /\ stages = s
          /\ start_time = IF s = <<>> THEN None ELSE Epoch
          /\ current_stage_start = IF s = <<>> THEN None ELSE Epoch
          /\ remaining = IF s = <<>> THEN None ELSE s[1].duration
    /\ state = "STOPPED"
    /\ current_stage = 0
    /\ subscribed = << >>
    /\ last_clockupdate = 0
    /\ clock_channel \in {"None", "channel"}
    /\ tasks = [t \in TaskIds |-> IdleTask]
    /\ calls = 0
    /\ last_return = Returned("none", 0, "none")
    /\ last_edit = None

\* an external caller makes one more call
Call == calls < MaxCalls /\ calls' = calls + 1

\* ---------------------------------------------------------- Timer.setup
\* the time left of the first stage in seconds, as change_stage counts it
SetupCountingSeconds(s) ==
    /\ Call
    /\ state' = "STOPPED"
    /\ stages' = s
    /\ current_stage' = 0
    /\ start_time' = Now
    /\ IF s = <<>>
          THEN /\ last_return' = Returned("setup", 0, "IndexError")
               /\ UNCHANGED <<remaining, current_stage_start>>
          ELSE /\ remaining' = s[1].duration * SecondsPerMinute
               /\ current_stage_start' = Now
               /\ last_return' = Returned("setup", 0, "none")
    /\ UNCHANGED <<clock, subscribed, last_clockupdate, clock_channel, tasks,
                   last_edit>>
    /\ UNCHANGED <<channelVars, subscriberVars, rendered>>

Setup(s) ==
    /\ Call
    /\ state' = "STOPPED"
    /\ stages' = s
    /\ current_stage' = 0
    /\ start_time' = Now
    /\ IF s = <<>>
          THEN \* stages[0] raises after lines 42-47
               /\ last_return' = Returned("setup", 0, "IndexError")
               /\ UNCHANGED <<remaining, current_stage_start>>
          ELSE /\ remaining' = s[1].duration
               /\ current_stage_start' = Now
               /\ last_return' = Returned("setup", 0, "none")
    /\ UNCHANGED <<clock, subscribed, last_clockupdate, clock_channel, tasks,
                   last_edit>>
    /\ UNCHANGED <<channelVars, subscriberVars, rendered>>

\* ---------------------------------------------------- Timer.change_stage
\* Line 139: touch() is called on what iterating the dict yields, its keys.
\* A key is a user id and has no touch(): the first one raises.
TouchRaises == DOMAIN subscribed # {}

\* Lines 139-148 raise before channel.send is reached
ChangeStageRaises ==
    IF TouchRaises THEN "AttributeError"
    ELSE IF Len(stages) = 0 THEN "TypeError"
    ELSE IF current_stage >= Len(stages) THEN "IndexError"
    ELSE "none"

\* naming the outgoing stage whatever report_old says
old_stage_str_always(current, report_old) == "**" \o current.name \o "** finished! "

\* line 147
old_stage_str(current, report_old) ==
    IF report_old THEN "**" \o current.name \o "** finished! " ELSE ""

\* lines 149-156: the text of the notification; role.mention is written @role
Notification(old_str, new_stage) ==
    "@role" \o "\n" \o old_str \o "Starting **" \o new_stage.name \o "** ("
        \o ToString(new_stage.duration) \o " minutes). " \o new_stage.message \o "\n"
        \o "Please react to this message to register your presence!"

\* Lines 141-148: the coroutine suspended in channel.send; start() is the one
\* caller that passes report_old=False (line 174)
ChangeStageCall(kind, i) ==
    [IdleTask EXCEPT !.kind = kind, !.pc = "send", !.arg = i, !.n = Len(stages),
                     !.stage_index = PyMod(i, Len(stages)),
                     !.out_msg = Notification(
                                    old_stage_str(stages[current_stage + 1], kind # "start"),
                                    stages[PyMod(i, Len(stages)) + 1])]

\* task slot t runs change_stage(i) up to its first suspension
EnterChangeStage(t, kind, i) ==
    IF ChangeStageRaises # "none"
       THEN /\ tasks' = [tasks EXCEPT ![t] = IdleTask]
            /\ last_return' = Returned(kind, i, ChangeStageRaises)
       ELSE /\ tasks' = [tasks EXCEPT ![t] = ChangeStageCall(kind, i)]
            /\ UNCHANGED last_return

\* update_clock_channel up to its await: where the runloop suspends next
ClockChannelNext(cs) ==
    IF clock_channel = "None" THEN "sleep"
    ELSE IF Now - last_clockupdate < clock_period THEN "sleep"
    ELSE IF cs >= Len(stages) THEN "raised"
    ELSE "edit"

\* the runloop after change_stage or the remaining > 0 branch: lines 184-185
AfterTick(t, cs) ==
    LET nxt == ClockChannelNext(cs) IN
    /\ IF nxt = "raised"
          THEN /\ tasks' = [tasks EXCEPT ![t] = IdleTask]
               /\ last_return' = Returned("runloop", 0, "IndexError")
          ELSE /\ tasks' = [tasks EXCEPT ![t] =
                     [IdleTask EXCEPT !.kind = "runloop", !.pc = nxt,
                         !.wake = IF nxt = "sleep" THEN clock + TicksPerSecond ELSE 0]]
               /\ UNCHANGED last_return
    /\ last_edit' = IF nxt = "edit" THEN clock ELSE last_edit

\* channel.send returns the message: the coroutine goes on to add_reaction
SendOk(t) ==
    /\ tasks[t].pc = "send"
    /\ tasks' = [tasks EXCEPT ![t].pc = "react", ![t].sent = @ + 1]
    /\ UNCHANGED <<clock, timerVars, calls, last_return, last_edit>>
    /\ UNCHANGED <<channelVars, subscriberVars, rendered>>

\* channel.send raises: nothing in change_stage, start or runloop catches it
SendFail(t) ==
    /\ tasks[t].pc = "send"
    /\ tasks' = [tasks EXCEPT ![t] = IdleTask]
    /\ last_return' = Returned(tasks[t].kind, tasks[t].arg, "HTTPException")
    /\ UNCHANGED <<clock, timerVars, calls, last_edit>>
    /\ UNCHANGED <<channelVars, subscriberVars, rendered>>

\* add_reaction returns or raises (swallowed): lines 163-165, then the caller
AddReaction(t) ==
    /\ tasks[t].pc = "react"
    /\ current_stage' = tasks[t].stage_index
    /\ current_stage_start' = Now
    /\ IF tasks[t].stage_index >= Len(stages)
          THEN \* stages was replaced meanwhile: line 165 raises IndexError
               /\ tasks' = [tasks EXCEPT ![t] = IdleTask]
               /\ last_return' = Returned(tasks[t].kind, tasks[t].arg, "IndexError")
               /\ UNCHANGED <<remaining, state, last_edit>>
          ELSE /\ remaining' = stages[tasks[t].stage_index + 1].duration * SecondsPerMinute
               /\ CASE tasks[t].kind = "change_stage" ->
                         /\ tasks' = [tasks EXCEPT ![t] = IdleTask]
                         /\ last_return' = Returned("change_stage", tasks[t].arg, "none")
                         /\ UNCHANGED <<state, last_edit>>
                    [] tasks[t].kind = "start" ->
                         \* lines 175-176: the runloop is scheduled
                         /\ state' = "RUNNING"
                         /\ tasks' = [tasks EXCEPT ![t] =
                               [IdleTask EXCEPT !.kind = "runloop", !.pc = "ready"]]
                         /\ last_return' = Returned("start", 0, "none")
                         /\ UNCHANGED last_edit
                    [] tasks[t].kind = "runloop" ->
                         /\ AfterTick(t, tasks[t].stage_index)
                         /\ UNCHANGED state
    /\ UNCHANGED <<clock, stages, start_time, subscribed, last_clockupdate,
                   clock_channel, calls>>
    /\ UNCHANGED <<channelVars, subscriberVars, rendered>>

\* ---------------------------------------------------------- Timer.start
Start ==
    /\ Call
    /\ \E t \in TaskIds : Free(t)
    /\ EnterChangeStage(FreeSlot, "start", 0)
    /\ UNCHANGED <<clock, timerVars, last_edit>>
    /\ UNCHANGED <<channelVars, subscriberVars, rendered>>

\* an external caller's change_stage(i)
ChangeStage(i) ==
    /\ Call
    /\ \E t \in TaskIds : Free(t)
    /\ EnterChangeStage(FreeSlot, "change_stage", i)
    /\ UNCHANGED <<clock, timerVars, last_edit>>
    /\ UNCHANGED <<channelVars, subscriberVars, rendered>>

\* -------------------------------------------------------- Timer.runloop
\* the time spent in the stage instead of the time left of it
RemainingCountingUp ==
    IntOf(clock - current_stage_start * TicksPerSecond, TicksPerSecond)

\* line 180
RemainingNow ==
    IntOf(SecondsPerMinute * stages[current_stage + 1].duration * TicksPerSecond
            - (clock - current_stage_start * TicksPerSecond),
          TicksPerSecond)

\* One pass of the while loop: from the loop test to the next suspension.
Tick(t) ==
    /\ tasks[t].kind = "runloop"
    /\ \/ tasks[t].pc = "ready"
       \/ tasks[t].pc = "sleep" /\ clock >= tasks[t].wake
    /\ IF state # "RUNNING"
          THEN /\ tasks' = [tasks EXCEPT ![t] = IdleTask]
               /\ last_return' = Returned("runloop", 0, "none")
               /\ UNCHANGED <<remaining, last_edit>>
       ELSE IF current_stage >= Len(stages)
          THEN /\ tasks' = [tasks EXCEPT ![t] = IdleTask]
               /\ last_return' = Returned("runloop", 0, "IndexError")
               /\ UNCHANGED <<remaining, last_edit>>
       ELSE /\ remaining' = RemainingNow
            /\ IF RemainingNow <= 0
                  THEN /\ EnterChangeStage(t, "runloop", current_stage + 1)
                       /\ UNCHANGED last_edit
                  ELSE AfterTick(t, current_stage)
    /\ UNCHANGED <<clock, state, stages, current_stage, start_time,
                   current_stage_start, subscribed, last_clockupdate,
                   clock_channel, calls>>
    /\ UNCHANGED <<channelVars, subscriberVars, rendered>>

\* clock_channel.edit returns or raises (swallowed): the loop goes to sleep
EditDone(t) ==
    /\ tasks[t].pc = "edit"
    /\ tasks' = [tasks EXCEPT ![t].pc = "sleep", ![t].wake = clock + TicksPerSecond]
    /\ UNCHANGED <<clock, timerVars, calls, last_return, last_edit>>
    /\ UNCHANGED <<channelVars, subscriberVars, rendered>>

\* ------------------------------------------------------ external callers
Pause ==
    /\ Call
    /\ state = "RUNNING"
    /\ state' = "PAUSED"
    /\ UNCHANGED <<clock, stages, current_stage, start_time, current_stage_start,
                   remaining, subscribed, last_clockupdate, clock_channel,
                   tasks, last_return, last_edit>>
    /\ UNCHANGED <<channelVars, subscriberVars, rendered>>

Stop ==
    /\ Call
    /\ state # "STOPPED"
    /\ state' = "STOPPED"
    /\ UNCHANGED <<clock, stages, current_stage, start_time, current_stage_start,
                   remaining, subscribed, last_clockupdate, clock_channel,
                   tasks, last_return, last_edit>>
    /\ UNCHANGED <<channelVars, subscriberVars, rendered>>

Subscribe(u) ==
    /\ Call
    /\ u \notin DOMAIN subscribed
    /\ subscribed' = (u :> NewSubscriber(u, Now)) @@ subscribed
    /\ UNCHANGED <<clock, state, stages, current_stage, start_time,
                   current_stage_start, remaining, last_clockupdate,
                   clock_channel, tasks, last_return, last_edit>>
    /\ UNCHANGED <<channelVars, subscriberVars, rendered>>

Unsubscribe(u) ==
    /\ Call
    /\ u \in DOMAIN subscribed
    /\ subscribed' = [v \in DOMAIN subscribed \ {u} |-> subscribed[v]]
    /\ UNCHANGED <<clock, state, stages, current_stage, start_time,
                   current_stage_start, remaining, last_clockupdate,
                   clock_channel, tasks, last_return, last_edit>>
    /\ UNCHANGED <<channelVars, subscriberVars, rendered>>

\* ------------------------------------------------------------ the clock
Elapsed == clock - Epoch * TicksPerSecond

Advance(d) ==
    /\ (Elapsed % (SecondsPerMinute * TicksPerSecond))
         + (Elapsed \div (SecondsPerMinute * TicksPerSecond)) < MaxAdvances
    /\ clock' = clock + d
    /\ UNCHANGED <<timerVars, tasks, calls, last_return, last_edit>>
    /\ UNCHANGED <<channelVars, subscriberVars, rendered>>

Next ==
    \/ \E s \in StageLists \cup {<<>>} : Setup(s)
    \/ Start
    \/ \E i \in StageArgs \cup {current_stage + 1} : ChangeStage(i)
    \/ \E t \in TaskIds : SendOk(t)
    \/ \E t \in TaskIds : SendFail(t)
    \/ \E t \in TaskIds : AddReaction(t)
    \/ \E t \in TaskIds : Tick(t)
    \/ \E t \in TaskIds : EditDone(t)
    \/ Pause
    \/ Stop
    \/ \E u \in UserIds : Subscribe(u)
    \/ \E u \in UserIds : Unsubscribe(u)
    \/ \E d \in {1, SecondsPerMinute * TicksPerSecond} : Advance(d)

\* =========================================================== rendering
\* "{:02d}".format(n) for n >= 0
Format02d(n) == IF n < 10 THEN "0" \o ToString(n) ELSE ToString(n)

\* formatting the difference without clamping it at 0
pretty_remaining_unclamped(r) ==
    LET diff == r
        hours == diff \div 3600
        minutes == (diff % 3600) \div 60
        seconds == diff % 60
    IN Format02d(hours) \o ":" \o Format02d(minutes) \o ":" \o Format02d(seconds)

\* Timer.pretty_remaining, of the timer's remaining
pretty_remaining(r) ==
    LET diff == IF r > 0 THEN r ELSE 0
        hours == diff \div 3600
        minutes == (diff % 3600) \div 60
        seconds == diff % 60
    IN Format02d(hours) \o ":" \o Format02d(minutes) \o ":" \o Format02d(seconds)

RECURSIVE Spaces(_)
Spaces(k) == IF k <= 0 THEN "" ELSE " " \o Spaces(k - 1)

\* sep.join(strs)
RECURSIVE Join(_, _)
Join(sep, strs) ==
    IF Len(strs) = 0 THEN ""
    ELSE IF Len(strs) = 1 THEN strs[1]
    ELSE strs[1] \o sep \o Join(sep, Tail(strs))

RECURSIVE MaxLen(_)
MaxLen(names) ==
    IF Len(names) = 1 THEN Len(names[1])
    ELSE LET m == MaxLen(Tail(names)) IN IF Len(names[1]) > m THEN Len(names[1]) ELSE m

\* Timer.pretty_pinstatus, of a timer given as a record of its fields;
\* subscribed holds the member names of subscribed.values().  The backquote
\* is written ' and the zero-width space _ here.
pretty_pinstatus(t) ==
    IF t.state \in {"RUNNING", "PAUSED"}
       THEN LET current_stage_name == t.stages[t.current_stage + 1].name
                rem == pretty_remaining(t.remaining)
                subbed_str == IF Len(t.subscribed) > 0
                                 THEN "'''" \o Join(", ", t.subscribed) \o "'''"
                                 ELSE "*No subscribers*"
                longest_stage_len ==
                    MaxLen([i \in 1..Len(t.stages) |-> t.stages[i].name])
                line(i) ==
                    "'" \o (IF i - 1 = t.current_stage THEN "->" ELSE "_  ")
                        \o Spaces(longest_stage_len - Len(t.stages[i].name))
                        \o t.stages[i].name \o ":' "
                        \o ToString(t.stages[i].duration) \o " min  "
                        \o (IF i - 1 = t.current_stage THEN "(**" \o rem \o "**)" ELSE "")
                stage_str == Join("\n", [i \in 1..Len(t.stages) |-> line(i)])
            IN "**" \o t.name \o "** (" \o current_stage_name \o ")"
                 \o (IF t.state = "PAUSED" THEN " ***Paused***" ELSE "") \o "\n"
                 \o stage_str \o "\n" \o subbed_str
       ELSE "**" \o t.name \o "**: *Not set up.*"

\* the call of pretty_remaining() on a timer
PrettyRemaining ==
    /\ rendered' = pretty_remaining(remaining)
    /\ UNCHANGED <<vars, channelVars, subscriberVars>>

\* ======================================================== TimerChannel
MaxUpdates == 2
MaxUpdateTasks == 2

UpdateIds == 1..MaxUpdateTasks

\* what update() lets through to its caller
Exceptions == {"HTTPException", "Forbidden"}

IdleUpdate == [pc |-> "idle", embed |-> "", target |-> 0, found |-> 0]

\* the member timers of the channels modelled: their names and what they show
Member(i, st) ==
    IF i = 1
       THEN [name |-> "A", state |-> st, stages |-> <<Work, Break>>,
             current_stage |-> 0, remaining |-> 125, subscribed |-> <<>>]
       ELSE [name |-> "B", state |-> st, stages |-> <<Work, Break, Long>>,
             current_stage |-> 1, remaining |-> -2, subscribed |-> <<"ann", "bob">>]

TimerStates == {"STOPPED", "RUNNING", "PAUSED"}

\* TimerChannel.__init__, and timers appended to it
ChannelInit ==
    /\ \E k \in 0..2 : \E st \in [1..k -> TimerStates] :
          timers = [i \in 1..k |-> Member(i, st[i])]
    /\ msg = 0
    /\ surface = <<>>
    /\ notices = 0
    /\ updates = [k \in UpdateIds |-> IdleUpdate]
    /\ update_calls = 0
    /\ update_return = "none"

\* the statuses joined by a line break only
DescriptionNoBlankLine(messages) == Join("\n", messages)

\* line 257: the description of the embed
Description(messages) == Join("\n\n", messages)

\* Lines 255-271: update() up to its first await
UpdateCall(k) ==
    /\ update_calls < MaxUpdates
    /\ updates[k].pc = "idle"
    /\ \A j \in UpdateIds : updates[j].pc = "idle" => k <= j
    /\ update_calls' = update_calls + 1
    /\ LET messages == [i \in 1..Len(timers) |-> pretty_pinstatus(timers[i])] IN
       IF Len(messages) = 0
          THEN /\ update_return' = "no timers"
               /\ UNCHANGED updates
          ELSE /\ updates' = [updates EXCEPT ![k] =
                     [pc |-> IF msg # 0 THEN "edit" ELSE "create",
                      embed |-> Description(messages),
                      target |-> msg, found |-> msg]]
               /\ UNCHANGED update_return
    /\ UNCHANGED <<timers, msg, surface, notices>>
    /\ UNCHANGED <<vars, subscriberVars, rendered>>

\* msg.edit returns (ok) or raises (swallowed): update() returns
EditReturns(k, ok) ==
    /\ updates[k].pc = "edit"
    /\ surface' = IF ok THEN [surface EXCEPT ![updates[k].target] = updates[k].embed]
                        ELSE surface
    /\ updates' = [updates EXCEPT ![k] = IdleUpdate]
    /\ update_return' = IF ok THEN "edited" ELSE "edit failed"
    /\ UNCHANGED <<timers, msg, notices, update_calls>>
    /\ UNCHANGED <<vars, subscriberVars, rendered>>

\* channel.send(embed=embed) returns the new message: line 271, then line 279
CreateOk(k) ==
    /\ updates[k].pc = "create"
    /\ surface' = Append(surface, updates[k].embed)
    /\ msg' = Len(surface) + 1
    /\ updates' = [updates EXCEPT ![k].pc = "pin", ![k].target = Len(surface) + 1]
    /\ UNCHANGED <<timers, notices, update_calls, update_return>>
    /\ UNCHANGED <<vars, subscriberVars, rendered>>

\* channel.send(embed=embed) raises discord.Forbidden: line 273 sends the notice
CreateForbidden(k) ==
    /\ updates[k].pc = "create"
    /\ updates' = [updates EXCEPT ![k].pc = "notice"]
    /\ UNCHANGED <<timers, msg, surface, notices, update_calls, update_return>>
    /\ UNCHANGED <<vars, subscriberVars, rendered>>

\* channel.send(embed=embed) raises another exception: nothing catches it
CreateFails(k) ==
    /\ updates[k].pc = "create"
    /\ updates' = [updates EXCEPT ![k] = IdleUpdate]
    /\ update_return' = "HTTPException"
    /\ UNCHANGED <<timers, msg, surface, notices, update_calls>>
    /\ UNCHANGED <<vars, subscriberVars, rendered>>

\* the notice is sent: lines 274-275 stop the timers, line 279 pins self.msg,
\* and pin() of None raises AttributeError, which line 280 swallows
NoticeOk(k) ==
    /\ updates[k].pc = "notice"
    /\ notices' = notices + 1
    /\ timers' = [i \in 1..Len(timers) |-> [timers[i] EXCEPT !.state = "STOPPED"]]
    /\ IF msg = 0
          THEN /\ updates' = [updates EXCEPT ![k] = IdleUpdate]
               /\ update_return' = "stopped the timers"
          ELSE /\ updates' = [updates EXCEPT ![k].pc = "pin", ![k].target = msg]
               /\ UNCHANGED update_return
    /\ UNCHANGED <<msg, surface, update_calls>>
    /\ UNCHANGED <<vars, subscriberVars, rendered>>

\* the notice's send raises, inside the except clause: nothing catches it
NoticeFails(k) ==
    /\ updates[k].pc = "notice"
    /\ updates' = [updates EXCEPT ![k] = IdleUpdate]
    /\ update_return' = "Forbidden"
    /\ UNCHANGED <<timers, msg, surface, notices, update_calls>>
    /\ UNCHANGED <<vars, subscriberVars, rendered>>

\* msg.pin returns or raises (swallowed): update() returns
PinReturns(k) ==
    /\ updates[k].pc = "pin"
    /\ updates' = [updates EXCEPT ![k] = IdleUpdate]
    /\ update_return' = "pinned"
    /\ UNCHANGED <<timers, msg, surface, notices, update_calls>>
    /\ UNCHANGED <<vars, subscriberVars, rendered>>

\* a member timer is started, paused (when Running) or stopped meanwhile
MemberState(i, st) ==
    /\ i \in 1..Len(timers)
    /\ timers[i].state # st
    /\ st = "PAUSED" => timers[i].state = "RUNNING"
    /\ timers' = [timers EXCEPT ![i].state = st]
    /\ UNCHANGED <<msg, surface, notices, updates, update_calls, update_return>>
    /\ UNCHANGED <<vars, subscriberVars, rendered>>

ChannelNext ==
    \/ \E k \in UpdateIds : UpdateCall(k)
    \/ \E k \in UpdateIds, ok \in BOOLEAN : EditReturns(k, ok)
    \/ \E k \in UpdateIds : CreateOk(k)
    \/ \E k \in UpdateIds : CreateForbidden(k)
    \/ \E k \in UpdateIds : CreateFails(k)
    \/ \E k \in UpdateIds : NoticeOk(k)
    \/ \E k \in UpdateIds : NoticeFails(k)
    \/ \E k \in UpdateIds : PinReturns(k)
    \/ \E i \in 1..2, st \in TimerStates : MemberState(i, st)

\* ===================================================== TimerSubscriber
\* what an attribute access or assignment raises
AttributeError == [exc |-> "AttributeError"]

\* crediting the elapsed time whatever the active status
touchAlways(s, now) ==
    [s EXCEPT !.clocked_time = @ + (now - s.last_updated), !.last_updated = now]

\* TimerSubscriber.touch
touch(s, now) ==
    [s EXCEPT !.clocked_time = @ + (IF s.active THEN now - s.last_updated ELSE 0),
              !.last_updated = now]

\* TimerSubscriber.bump
bump(s, now) == [s EXCEPT !.last_seen = now, !.warnings = 0]

\* TimerSubscriber.serialise: member.guild.id and timer.role.id are read through
\* the member and timer slots; an attribute no slot holds raises
serialise(s) ==
    LET read == <<"id", "member", "timer", "time_joined", "last_updated",
                  "time_subbed", "last_seen", "warnings">>
    IN IF \E i \in 1..Len(read) : read[i] \notin DOMAIN s
          THEN AttributeError
          ELSE [exc |-> "none", data |-> [i \in 1..Len(read) |-> s[read[i]]]]

\* TimerSubscriber.deserialise: __init__, then the assignments of lines 362-366;
\* assigning an attribute that is no slot raises
deserialise(id, now, data) ==
    LET written == <<"time_joined", "last_updated", "time_subbed", "last_seen", "warnings">>
        self == NewSubscriber(id, now)
    IN IF \E i \in 1..Len(written) : written[i] \notin Slots
          THEN AttributeError
          ELSE [exc |-> "none",
                self |-> [a \in DOMAIN self |->
                            IF \E i \in 1..Len(written) : written[i] = a
                               THEN data[2 + CHOOSE i \in 1..Len(written) : written[i] = a]
                               ELSE self[a]]]

SubscriberInit ==
    /\ sub = NewSubscriber(7, Epoch)
    /\ restored = [exc |-> "none yet"]

Touch ==
    /\ sub' = touch(sub, Now)
    /\ UNCHANGED <<restored, vars, channelVars, rendered>>

Bump ==
    /\ sub' = bump(sub, Now)
    /\ UNCHANGED <<restored, vars, channelVars, rendered>>

\* the inactivity handling outside this file marks the subscriber
SetActive(b) ==
    /\ sub.active # b
    /\ sub' = [sub EXCEPT !.active = b]
    /\ UNCHANGED <<restored, vars, channelVars, rendered>>

Warn ==
    /\ sub.warnings < 1
    /\ sub' = [sub EXCEPT !.warnings = @ + 1]
    /\ UNCHANGED <<restored, vars, channelVars, rendered>>

\* deserialise(member, timer, interface, sub.serialise())
RoundTrip ==
    /\ restored' = (LET ser == serialise(sub) IN
                    IF ser.exc # "none" THEN ser ELSE deserialise(sub.id, Now, ser.data))
    /\ UNCHANGED <<sub, vars, channelVars, rendered>>

SubscriberNext ==
    \/ Touch
    \/ Bump
    \/ \E b \in BOOLEAN : SetActive(b)
    \/ Warn
    \/ RoundTrip
    \/ \E d \in {1, SecondsPerMinute * TicksPerSecond} : Advance(d)

\* ====================================================== specifications
\* what the other specifications leave as constructed
TimerIdle ==
    /\ clock = Epoch * TicksPerSecond
    /\ stages = <<>> /\ start_time = None /\ current_stage_start = None
    /\ remaining = None /\ state = "STOPPED" /\ current_stage = 0
    /\ subscribed = << >> /\ last_clockupdate = 0 /\ clock_channel = "None"
    /\ tasks = [t \in TaskIds |-> IdleTask]
    /\ calls = 0
    /\ last_return = Returned("none", 0, "none")
    /\ last_edit = None

ChannelIdle ==
    /\ timers = <<>> /\ msg = 0 /\ surface = <<>> /\ notices = 0
    /\ updates = [k \in UpdateIds |-> IdleUpdate]
    /\ update_calls = 0 /\ update_return = "none"

RenderIdle == rendered = ""

Init == TimerInit /\ ChannelIdle /\ SubscriberInit /\ RenderIdle

Spec == Init /\ [][Next]_allVars

InitChannel == TimerIdle /\ SubscriberInit /\ ChannelInit /\ RenderIdle

SpecChannel == InitChannel /\ [][ChannelNext]_allVars

InitSubscriber == TimerIdle /\ ChannelIdle /\ SubscriberInit /\ RenderIdle

SpecSubscriber == InitSubscriber /\ [][SubscriberNext]_allVars

\* the values of remaining that pretty_remaining() is called on: every second
\* from a few below 0 to some minutes, and values around the hours
MaxNegative == 5
MaxSeconds == 130
HourInputs == {3599, 3600, 3661, 7325, 35999, 36000, 86399}
RemainingInputs == ((0 - MaxNegative)..MaxSeconds) \cup HourInputs

\* a timer of stages [Work, Break] counting down, as a tick or a stage change
\* left it
InitRemaining ==
    /\ clock = Epoch * TicksPerSecond
    /\ stages = <<Work, Break>> /\ start_time = Epoch /\ current_stage_start = Epoch
    /\ remaining \in RemainingInputs
    /\ state \in {"RUNNING", "PAUSED"} /\ current_stage = 0
    /\ subscribed = << >> /\ last_clockupdate = 0 /\ clock_channel = "None"
    /\ tasks = [t \in TaskIds |-> IdleTask]
    /\ calls = 0
    /\ last_return = Returned("none", 0, "none")
    /\ last_edit = None
    /\ ChannelIdle /\ SubscriberInit /\ RenderIdle

SpecRemaining == InitRemaining /\ [][PrettyRemaining]_allVars

\* ================================================================ claims

InitialClock == Epoch * TicksPerSecond

LiveLoops == {t \in TaskIds : Live(t)}

\* C1: a change_stage(i) that completes leaves current_stage = i mod len(stages),
\* for every argument i, negative ones included, where stages is the list the
\* call took its index from; so forced advances by current_stage + 1 walk the
\* list in order and wrap from the last stage to stage 0.
C1_ChangeStageModLen ==
    [][\A t \in TaskIds :
          (/\ tasks[t].pc = "react"
           /\ tasks'[t].pc # "react"
           /\ tasks[t].stage_index < Len(stages))
          => /\ current_stage' = tasks[t].arg % tasks[t].n
             /\ current_stage' \in 0..(tasks[t].n - 1)]_vars

\* C1 witness: start() and two forced advances on a list of two stages, with no
\* time passed for the loop to advance on its own: the timer is back at stage 0.
C1_Witness ==
    /\ calls = 3
    /\ clock = InitialClock
    /\ state = "RUNNING"
    /\ Len(stages) = 2
    /\ last_return = Returned("change_stage", 2, "none")
    /\ current_stage = 0

\* C2: at most one runloop of the timer goes on ticking: there are never two
\* runloops that each have passed the loop test of a Running timer.
C2_OneRunloop ==
    ~ \E t, u \in TaskIds :
         /\ t # u
         /\ state = "RUNNING"
         /\ tasks[t].kind = "runloop" /\ tasks[t].pc \in {"sleep", "edit", "send", "react"}
         /\ tasks[u].kind = "runloop" /\ tasks[u].pc \in {"sleep", "edit", "send", "react"}

\* C3: a call of change_stage on a timer with subscribers applies touch() to each
\* of them: each has last_updated = now, and each active one has been credited
\* the time since its previous last_updated.
C3_TouchOnStageChange ==
    [][((Start \/ \E i \in StageArgs \cup {current_stage + 1} : ChangeStage(i))
          /\ DOMAIN subscribed # {})
       => \A u \in DOMAIN subscribed :
             /\ subscribed'[u].last_updated = Now
             /\ subscribed'[u].clocked_time =
                   subscribed[u].clocked_time
                     + (IF subscribed[u].active
                           THEN Now - subscribed[u].last_updated ELSE 0)]_vars

\* C4: a tick of the runloop of a Running timer changes the stage if and only if
\* the remaining time it computes is <= 0: with remaining > 0 it leaves
\* current_stage and current_stage_start alone, with remaining <= 0 it goes into
\* the stage change, which moves from index i to (i + 1) mod len(stages) and sets
\* current_stage_start = now and remaining = 60 * the new stage's duration.
C4_TickChangesStageIffExpired ==
    [][\A t \in TaskIds :
          /\ (Tick(t) /\ state = "RUNNING" /\ current_stage < Len(stages))
             => /\ remaining' = RemainingNow
                /\ current_stage' = current_stage
                /\ current_stage_start' = current_stage_start
                /\ (RemainingNow <= 0) <=> (tasks'[t].pc = "send")
          /\ (/\ AddReaction(t) /\ tasks[t].kind = "runloop"
              /\ state = "RUNNING" /\ tasks[t].stage_index < Len(stages))
             => /\ current_stage' = (tasks[t].arg - 1 + 1) % tasks[t].n
                /\ current_stage_start' = Now
                /\ remaining' = SecondsPerMinute * stages[current_stage' + 1].duration]_vars

\* C5: a failed notification send does not end the runloop: no runloop of a
\* timer that is still Running is ended by the exception of channel.send.
C5_SendFailureDoesNotEndLoop ==
    ~ (/\ last_return.kind = "runloop"
       /\ last_return.exc = "HTTPException"
       /\ state = "RUNNING"
       /\ LiveLoops = {})

\* C6: between two clock-channel edits of the timer at least clock_period
\* seconds pass.
C6_ClockEditsRateLimited ==
    [][(last_edit' # last_edit /\ last_edit # None)
       => last_edit' - last_edit >= clock_period * TicksPerSecond]_vars

\* C7: while the timer is Running and notifications succeed, no stage stays
\* current forever.  Only the runloop advances the stage as time passes, so the
\* runloop of a timer that stays Running must not end, except by a failed
\* notification.
C7_LoopKeepsCycling ==
    [][\A t \in TaskIds :
          (/\ tasks[t].kind = "runloop"
           /\ tasks'[t].kind # "runloop"
           /\ state = "RUNNING" /\ state' = "RUNNING")
          => (last_return'.kind = "runloop" /\ last_return'.exc = "HTTPException")]_vars

\* C8: when the creating send of update() is rejected with Forbidden, update()
\* does not raise and every member timer is Stopped once the rejection is
\* handled.
C8_ForbiddenStopsAllTimers ==
    [][\A k \in UpdateIds :
          (updates[k].pc = "notice" /\ updates'[k].pc # "notice")
          => /\ \A i \in 1..Len(timers') : timers'[i].state = "STOPPED"
             /\ updates'[k].pc = "idle" => update_return' \notin Exceptions]_allVars

StatusesExpected ==
    IF Len(timers) = 1
       THEN pretty_pinstatus(timers[1])
       ELSE pretty_pinstatus(timers[1]) \o "\n\n" \o pretty_pinstatus(timers[2])

C10_RoundTrip ==
    [][RoundTrip
       => /\ restored'.exc = "none"
          /\ restored'.self.time_joined = sub.time_joined
          /\ restored'.self.last_updated = sub.last_updated
          /\ restored'.self.clocked_time = sub.clocked_time
          /\ restored'.self.last_seen = sub.last_seen
          /\ restored'.self.warnings = sub.warnings]_allVars

\* C11: touch() adds dt = now - last_updated to clocked_time exactly when active
\* is true, adds 0 when active is false, and always sets last_updated = now; so
\* a touch() with no time passed since the previous one, and any touch() of an
\* inactive subscriber, leave clocked_time as it was.
C11_TouchCreditsActiveTime ==
    [][Touch
       => /\ sub'.last_updated = Now
          /\ sub.active => sub'.clocked_time = sub.clocked_time + (Now - sub.last_updated)
          /\ ~sub.active => sub'.clocked_time = sub.clocked_time
          /\ sub.last_updated = Now => sub'.clocked_time = sub.clocked_time
          /\ \A a \in Slots \ {"clocked_time", "last_updated"} : sub'[a] = sub[a]]_allVars

\* C11 witness: a minute clocked while active, then a second spent inactive
\* and touched: the minute is all that is clocked.
C11_Witness ==
    /\ ~sub.active
    /\ sub.clocked_time = SecondsPerMinute
    /\ sub.last_updated = Epoch + SecondsPerMinute + 1
    /\ Now = Epoch + SecondsPerMinute + 1

\* the fields of the Timer that C12 and C13 name
TimerFields ==
    <<state, stages, current_stage, start_time, current_stage_start, remaining,
      subscribed>>

\* C12: setup(stages) and start() invoked with an empty or missing stage list
\* end with an error and leave every field of the Timer as it was.
C12_EmptyStagesRejectedUntouched ==
    [][/\ Setup(<<>>)
          => /\ last_return'.kind = "setup" /\ last_return'.exc # "none"
             /\ UNCHANGED TimerFields
       /\ (Start /\ Len(stages) = 0)
          => /\ last_return'.kind = "start" /\ last_return'.exc # "none"
             /\ UNCHANGED TimerFields]_vars

\* C13: setup(stages) with a non-empty list leaves state = Stopped,
\* current_stage = 0, start_time = now, current_stage_start = now and
\* remaining = stages[0].duration, leaves the subscriber mapping as it was, and
\* a setup(stages) of a timer that a setup(stages) at the same instant left so
\* changes no field.
C13_SetupPostcondition ==
    [][\A s \in StageLists :
          Setup(s)
          => /\ state' = "STOPPED"
             /\ stages' = s
             /\ current_stage' = 0
             /\ start_time' = Now
             /\ current_stage_start' = Now
             /\ remaining' = s[1].duration
             /\ subscribed' = subscribed
             /\ last_return' = Returned("setup", 0, "none")
             /\ (/\ state = "STOPPED" /\ stages = s /\ current_stage = 0
                 /\ start_time = Now /\ current_stage_start = Now
                 /\ remaining = s[1].duration)
                => UNCHANGED TimerFields]_vars

\* C13 witness: a subscriber joined at the start, and a second later the timer
\* was set up with three stages: the subscriber is still there.
C13_Witness ==
    /\ calls = 3
    /\ last_return = Returned("setup", 0, "none")
    /\ clock = InitialClock + TicksPerSecond
    /\ state = "STOPPED"
    /\ stages = <<Work, Break, Long>>
    /\ current_stage = 0
    /\ start_time = Epoch + 1
    /\ current_stage_start = Epoch + 1
    /\ remaining = 1
    /\ DOMAIN subscribed = {7}
    /\ subscribed[7].time_joined = Epoch

\* C14: when start() completes on a configured timer, state = Running,
\* current_stage = 0, current_stage_start = now, remaining = 60 * the duration
\* of stage 0, the call has sent exactly one notification, which names no
\* outgoing stage as finished, and a runloop of the timer is scheduled.
C14_StartPostcondition ==
    [][\A t \in TaskIds :
          (/\ tasks[t].kind = "start" /\ tasks[t].pc = "react"
           /\ tasks'[t].kind # "start"
           /\ last_return'.exc = "none")
          => /\ state' = "RUNNING"
             /\ current_stage' = 0
             /\ current_stage_start' = Now
             /\ remaining' = SecondsPerMinute * stages'[1].duration
             /\ tasks[t].sent = 1
             /\ \E s \in StageLists : tasks[t].out_msg = Notification("", s[1])
             /\ tasks'[t].kind = "runloop" /\ tasks'[t].pc = "ready"
             /\ last_return' = Returned("start", 0, "none")]_vars

\* C14 witness: start() has completed a second after it was called, on a timer
\* that nothing else was done to; its runloop has not run yet.
C14_Witness ==
    /\ calls = 1
    /\ last_return = Returned("start", 0, "none")
    /\ state = "RUNNING"
    /\ clock = InitialClock + TicksPerSecond
    /\ current_stage = 0
    /\ current_stage_start = Epoch + 1
    /\ remaining = SecondsPerMinute
    /\ \E t \in TaskIds : tasks[t].kind = "runloop" /\ tasks[t].pc = "ready"

\* C15: while the timer is Paused, no step of a runloop of the timer, a tick or
\* change_stage in flight at the pause included, changes remaining,
\* current_stage or current_stage_start.
C15_PausedFreezesStage ==
    [][\A t \in TaskIds :
          (/\ state = "PAUSED" /\ state' = "PAUSED"
           /\ tasks[t].kind = "runloop"
           /\ tasks'[t] # tasks[t])
          => UNCHANGED <<remaining, current_stage, current_stage_start>>]_vars

\* C18: whenever the stage list is non-empty, 0 <= current_stage < len(stages).
C18_StageIndexInRange ==
    Len(stages) > 0 => current_stage \in 0..(Len(stages) - 1)

\* C19: two overlapping change_stage calls act as if one ran after the other.
\* When call t completes while call u is still in flight, u writes last.  If t
\* is the earlier one of the serial order, the notification of u names as
\* finished the stage t has just made current; if u is the earlier one, both
\* lead to the same stage and the notification of t names that stage as
\* finished.
C19_ChangeStageSerial ==
    [][\A t, u \in TaskIds :
          (/\ t # u
           /\ tasks[t].pc = "react" /\ tasks'[t].pc # "react"
           /\ tasks[t].stage_index < Len(stages)
           /\ tasks[u].pc \in {"send", "react"}
           /\ tasks[u].stage_index < Len(stages))
          => \/ tasks[u].out_msg =
                   Notification(old_stage_str(stages[current_stage' + 1],
                                              tasks[u].kind # "start"),
                                stages[tasks[u].stage_index + 1])
             \/ /\ tasks[t].stage_index = tasks[u].stage_index
                /\ tasks[t].out_msg =
                      Notification(old_stage_str(stages[tasks[u].stage_index + 1],
                                                 tasks[t].kind # "start"),
                                   stages[tasks[t].stage_index + 1])]_vars

\* C20, the way the loop ends: a runloop that ends while the timer is Paused or
\* Stopped, and stays so, ends by returning, not by an exception.
C20_LoopExitsQuietly ==
    [][\A t \in TaskIds :
          (/\ tasks[t].kind = "runloop" /\ tasks'[t].kind # "runloop"
           /\ state \in {"PAUSED", "STOPPED"} /\ state' = state)
          => last_return' = Returned("runloop", 0, "none")]_vars

\* d as two decimal digits, 0 <= d < 100
TwoDigits(d) == ToString(d \div 10) \o ToString(d % 10)

\* C16: pretty_remaining() renders r = max(remaining, 0) seconds as zero-padded
\* HH:MM:SS with hours = r div 3600, minutes = (r mod 3600) div 60 and
\* seconds = r mod 60: remaining 125 gives "00:02:05", every negative remaining
\* gives "00:00:00".
C16_PrettyRemainingFormat ==
    [][PrettyRemaining
       => LET r == IF remaining > 0 THEN remaining ELSE 0 IN
          /\ rendered' = TwoDigits(r \div 3600) \o ":" \o TwoDigits((r % 3600) \div 60)
                            \o ":" \o TwoDigits(r % 60)
          /\ remaining = 125 => rendered' = "00:02:05"
          /\ remaining < 0 => rendered' = "00:00:00"
          /\ remaining = 3661 => rendered' = "01:01:01"]_allVars

\* C16 witness: pretty_remaining() was called with remaining = 125.
C16_Witness ==
    remaining = 125 /\ rendered = "00:02:05"

\* the seconds pretty_remaining() shows
ShownSeconds(r) == IF r > 0 THEN r ELSE 0

====
